---------------------------- MODULE Spec2Model ----------------------------
(***************************************************************************)
(* Model of the Project Zomboid mod manager: the flat-config codec         *)
(* (services/ini_service.py), the entity collection                        *)
(* (models/mod_list_model.py) and the load/save/enrichment handlers of the *)
(* main window (views/main_window.py).                                     *)
(*                                                                         *)
(* Text is modelled as a sequence of one-character strings, a file as the  *)
(* text it holds, so that parsing and rendering are computed character by  *)
(* character as the Python code computes them.                             *)
(***************************************************************************)
EXTENDS Integers, Sequences, FiniteSets, TLC

(***************************************************************************)
(* Bounds of the model.                                                    *)
(***************************************************************************)
\* longest file, in lines, that the codec specification starts from
MaxLines == 2
\* longest id list handed to IniService.save by the codec specification
MaxIds == 2

(***************************************************************************)
(* Characters and the Python string methods the codec uses.                *)
(***************************************************************************)
NL == "\n"
BS == "\\"
SP == " "
SEMI == ";"
EQ == "="

\* str.strip() with no argument strips whitespace
Whitespace == {SP, NL, "\t", "\r"}

RECURSIVE lstrip(_, _)
lstrip(s, chars) ==
    IF s # <<>> /\ Head(s) \in chars THEN lstrip(Tail(s), chars) ELSE s

RECURSIVE rstrip(_, _)
rstrip(s, chars) ==
    IF s # <<>> /\ s[Len(s)] \in chars
    THEN rstrip(SubSeq(s, 1, Len(s) - 1), chars)
    ELSE s

strip(s, chars) == rstrip(lstrip(s, chars), chars)

startswith(s, prefix) ==
    Len(s) >= Len(prefix) /\ SubSeq(s, 1, Len(prefix)) = prefix

\* index of the first occurrence of character c in s at or after i, 0 if none
RECURSIVE find(_, _, _)
find(s, c, i) ==
    IF i > Len(s) THEN 0
    ELSE IF s[i] = c THEN i
    ELSE find(s, c, i + 1)

\* the third component of str.partition(c): the text after the first c
partition_value(s, c) ==
    LET i == find(s, c, 1)
    IN  IF i = 0 THEN <<>> ELSE SubSeq(s, i + 1, Len(s))

RECURSIVE split(_, _)
split(s, c) ==
    LET i == find(s, c, 1)
    IN  IF i = 0 THEN <<s>>
        ELSE <<SubSeq(s, 1, i - 1)>> \o split(SubSeq(s, i + 1, Len(s)), c)

RECURSIVE join(_, _)
join(items, c) ==
    IF items = <<>> THEN <<>>
    ELSE IF Len(items) = 1 THEN items[1]
    ELSE items[1] \o <<c>> \o join(Tail(items), c)

\* file.readlines(): every line keeps its line end, the last may have none
RECURSIVE readlines(_)
readlines(text) ==
    IF text = <<>> THEN <<>>
    ELSE LET i == find(text, NL, 1)
         IN  IF i = 0 THEN <<text>>
             ELSE <<SubSeq(text, 1, i)>> \o readlines(SubSeq(text, i + 1, Len(text)))

\* file.writelines(): the lines one after the other, nothing added
RECURSIVE writelines(_)
writelines(lines) ==
    IF lines = <<>> THEN <<>> ELSE Head(lines) \o writelines(Tail(lines))

\* [x for x in items if x]
RECURSIVE drop_empty(_)
drop_empty(items) ==
    IF items = <<>> THEN <<>>
    ELSE (IF Head(items) # <<>> THEN <<Head(items)>> ELSE <<>>)
         \o drop_empty(Tail(items))

(***************************************************************************)
(* IniService: the two directives of the server INI file.                  *)
(***************************************************************************)
ModsKey == <<"M", "o", "d", "s", "=">>
WorkshopKey ==
    <<"W", "o", "r", "k", "s", "h", "o", "p", "I", "t", "e", "m", "s", "=">>

is_mods_line(line) == startswith(strip(line, Whitespace), ModsKey)
is_workshop_line(line) ==
    ~is_mods_line(line) /\ startswith(strip(line, Whitespace), WorkshopKey)

\* faulty variant of the loop below: it drops every empty item
RECURSIVE pop_all_empty(_)
pop_all_empty(items) ==
    IF items = <<>> THEN <<>>
    ELSE (IF Head(items) = <<>> THEN <<>> ELSE <<Head(items)>>)
         \o pop_all_empty(Tail(items))

\* while items and not items[-1]: items.pop()
RECURSIVE pop_trailing_empty(_)
pop_trailing_empty(items) ==
    IF items # <<>> /\ items[Len(items)] = <<>>
    THEN pop_trailing_empty(SubSeq(items, 1, Len(items) - 1))
    ELSE items

parse_semicolon_list(line) ==
    LET value == partition_value(line, EQ)
    IN  IF value = <<>> \/ strip(value, {SEMI, BS, SP}) = <<>>
        THEN <<>>
        ELSE pop_trailing_empty(split(value, SEMI))

\* faulty variant of the loop: it keeps the first value assigned to a
\* directive and ignores the later lines that carry it
RECURSIVE load_from_first(_, _, _)
load_from_first(lines, i, acc) ==
    IF i > Len(lines) THEN acc
    ELSE LET stripped == strip(lines[i], Whitespace)
             raw == parse_semicolon_list(stripped)
             seen_mods == \E k \in 1..(i - 1) : is_mods_line(lines[k])
             seen_workshop == \E k \in 1..(i - 1) : is_workshop_line(lines[k])
         IN  load_from_first(lines, i + 1,
                 IF is_mods_line(lines[i]) /\ ~seen_mods
                 THEN [acc EXCEPT !.mod_ids =
                          [k \in 1..Len(raw) |-> lstrip(raw[k], {BS})]]
                 ELSE IF is_workshop_line(lines[i]) /\ ~seen_workshop
                 THEN [acc EXCEPT !.workshop_ids = raw]
                 ELSE acc)

\* the loop of IniService.load over lines i.., acc the lists assigned so far
RECURSIVE load_from(_, _, _)
load_from(lines, i, acc) ==
    IF i > Len(lines) THEN acc
    ELSE LET stripped == strip(lines[i], Whitespace)
             raw == parse_semicolon_list(stripped)
         IN  load_from(lines, i + 1,
                 IF is_mods_line(lines[i])
                 THEN [acc EXCEPT !.mod_ids =
                          [k \in 1..Len(raw) |-> lstrip(raw[k], {BS})]]
                 ELSE IF is_workshop_line(lines[i])
                 THEN [acc EXCEPT !.workshop_ids = raw]
                 ELSE acc)

\* IniService.load on the text of the file
IniService_load(text) ==
    load_from(readlines(text), 1, [mod_ids |-> <<>>, workshop_ids |-> <<>>])

format_mod(mid) == <<BS>> \o mid
mods_line(mod_ids) ==
    LET kept == drop_empty(mod_ids)
    IN  ModsKey \o join([k \in 1..Len(kept) |-> format_mod(kept[k])], SEMI) \o <<NL>>
workshop_line(workshop_ids) == WorkshopKey \o join(workshop_ids, SEMI) \o <<NL>>

\* what IniService.save appends after the rewritten lines
missing_lines(lines, mod_ids, workshop_ids) ==
    (IF \E i \in 1..Len(lines) : is_mods_line(lines[i])
     THEN <<>> ELSE <<mods_line(mod_ids)>>)
    \o (IF \E i \in 1..Len(lines) : is_workshop_line(lines[i])
        THEN <<>> ELSE <<workshop_line(workshop_ids)>>)

\* new_lines of IniService.save
render(lines, mod_ids, workshop_ids) ==
    [i \in 1..Len(lines) |->
        IF is_mods_line(lines[i]) THEN mods_line(mod_ids)
        ELSE IF is_workshop_line(lines[i]) THEN workshop_line(workshop_ids)
        ELSE lines[i]]
    \o missing_lines(lines, mod_ids, workshop_ids)


(***************************************************************************)
(* The file system: each file name holds a text or no file.               *)
(***************************************************************************)
NoFile == <<"<no file>">>

\* the INI files the user may open or save to, two of them in one
\* directory, and the temporary file that
\* tempfile.mkstemp(dir=file_path.parent, prefix=".pz_", suffix=".tmp") makes
IniPaths == {"d1/a.ini", "d1/b.ini", "d2/c.ini"}
parent(path) == IF path = "d2/c.ini" THEN "d2" ELSE "d1"
tmp_path(path) == IF parent(path) = "d2" THEN "d2/.pz_k.tmp" ELSE "d1/.pz_k.tmp"
TmpPaths == {tmp_path(p) : p \in IniPaths}
FileNames == IniPaths \cup TmpPaths

exists(d, path) == d[path] # NoFile
os_unlink(d, path) == [d EXCEPT ![path] = NoFile]
os_replace(d, src, dst) == [d EXCEPT ![dst] = d[src], ![src] = NoFile]
write_text(d, path, text) == [d EXCEPT ![path] = text]

\* One I/O fault at most is injected into a call: where it strikes, and for
\* a failing write how many of the lines reached the temporary file.
NoFault == [at |-> "none", written |-> 0]
Faults ==
    {NoFault, [at |-> "read", written |-> 0], [at |-> "mkstemp", written |-> 0],
     [at |-> "write", written |-> 0], [at |-> "write", written |-> 1],
     [at |-> "replace", written |-> 0]}

\* faulty variant of the except-branch: raises and leaves the temporary file
raise_without_cleanup(d, tmp, fault) == [disk |-> d, raised |-> fault.at]

\* the except-branch of IniService.save: os.unlink(tmp_path), then raise
cleanup_and_raise(d, tmp, fault) ==
    [disk |-> os_unlink(d, tmp), raised |-> fault.at]

\* the atomic write of IniService.save: temp file, write, rename
atomic_write(d, path, new_lines, fault) ==
    LET tmp == tmp_path(path)
        created == write_text(d, tmp, <<>>)
        n == IF fault.written < Len(new_lines) THEN fault.written ELSE Len(new_lines)
    IN  IF fault.at = "mkstemp" THEN [disk |-> d, raised |-> fault.at]
        ELSE IF fault.at = "write"
        THEN cleanup_and_raise(
                 write_text(created, tmp, writelines(SubSeq(new_lines, 1, n))),
                 tmp, fault)
        ELSE LET written == write_text(created, tmp, writelines(new_lines))
             IN  IF fault.at = "replace" THEN cleanup_and_raise(written, tmp, fault)
                 ELSE [disk |-> os_replace(written, tmp, path), raised |-> "none"]

\* IniService.save: the disk after the call and the failure it raised
\* ("none" when it returned)
IniService_save(d, path, mod_ids, workshop_ids, fault) ==
    IF ~exists(d, path) \/ fault.at = "read"
    THEN [disk |-> d, raised |-> "read"]
    ELSE atomic_write(d, path,
             render(readlines(d[path]), mod_ids, workshop_ids), fault)


(***************************************************************************)
(* Mod and ModListModel: the entity collection.  A Mod is a record         *)
(* [mod_id, workshop_id, name, enabled]; its description is never set nor  *)
(* read by the handlers modelled here.                                     *)
(***************************************************************************)
Mod(mod_id, workshop_id, name, enabled) ==
    [mod_id |-> mod_id, workshop_id |-> workshop_id, name |-> name,
     enabled |-> enabled]

\* faulty variant of enabled_mods: every mod, enabled or not
enabled_mods_all(ms) == ms

\* ModListModel.enabled_mods
RECURSIVE enabled_mods(_)
enabled_mods(ms) ==
    IF ms = <<>> THEN <<>>
    ELSE (IF Head(ms).enabled THEN <<Head(ms)>> ELSE <<>>)
         \o enabled_mods(Tail(ms))

\* faulty variant of set_mods: the new mods are added to those held
set_mods_merge(ms, new_mods) == ms \o new_mods

\* ModListModel.set_mods: the collection is replaced
set_mods(ms, new_mods) == new_mods

\* ModListModel.add_mod
add_mod(ms, mod) == Append(ms, mod)

\* ModListModel.remove_rows for one row
remove_row(ms, row) == SubSeq(ms, 1, row - 1) \o SubSeq(ms, row + 1, Len(ms))

\* faulty variant of update_mod_name: renames every mod of the collection
update_mod_name_all(ms, workshop_id, name) ==
    [i \in 1..Len(ms) |-> [ms[i] EXCEPT !.name = name]]

\* ModListModel.update_mod_name: every mod with this workshop_id is renamed
update_mod_name(ms, workshop_id, name) ==
    [i \in 1..Len(ms) |->
        IF ms[i].workshop_id = workshop_id THEN [ms[i] EXCEPT !.name = name]
        ELSE ms[i]]

\* faulty variant of dict_fromkeys: keeps every occurrence
fromkeys_keep_all(items) == items

\* list(dict.fromkeys(items)): first occurrences, in order
RECURSIVE dict_fromkeys(_)
dict_fromkeys(items) ==
    IF items = <<>> THEN <<>>
    ELSE LET front == dict_fromkeys(SubSeq(items, 1, Len(items) - 1))
             last == items[Len(items)]
         IN  IF \E i \in 1..Len(front) : front[i] = last THEN front
             ELSE Append(front, last)

\* the two lists _save_file hands to IniService.save
save_mod_ids(ms) ==
    LET enabled == enabled_mods(ms)
    IN  drop_empty([i \in 1..Len(enabled) |-> enabled[i].mod_id])
save_workshop_ids(ms) ==
    LET enabled == enabled_mods(ms)
    IN  dict_fromkeys(drop_empty([i \in 1..Len(enabled) |-> enabled[i].workshop_id]))

(***************************************************************************)
(* The sidecar file .pz_mod_manager.json of a directory, by what it holds: *)
(*   "missing"       no such file                                          *)
(*   "json"          {"disabled_mods": [...]} with a list of objects       *)
(*   "invalid_json"  text that json.loads rejects                          *)
(*   "no_key"        a JSON object without "disabled_mods"                 *)
(*   "unreadable"    read_text raises (OSError, UnicodeDecodeError)        *)
(*   "not_dict"      valid JSON that is no object, such as [1, 2]          *)
(*   "bad_entries"   "disabled_mods" is no list of objects, such as null   *)
(***************************************************************************)
NoSidecar == [kind |-> "missing", disabled_mods |-> <<>>]
Dirs == {parent(p) : p \in IniPaths}
sidecar_path(ini_path) == parent(ini_path)

\* faulty variant of _save_sidecar: an existing sidecar is never deleted
save_sidecar_keep(sc, ini_path, ms) ==
    LET off == {i \in 1..Len(ms) : ~ms[i].enabled}
        row(k) == CHOOSE i \in off : Cardinality({j \in off : j < i}) = k - 1
    IN  IF off # {}
        THEN [sc EXCEPT ![sidecar_path(ini_path)] =
                 [kind |-> "json",
                  disabled_mods |->
                      [k \in 1..Cardinality(off) |->
                          [mod_id |-> ms[row(k)].mod_id,
                           workshop_id |-> ms[row(k)].workshop_id,
                           name |-> ms[row(k)].name]]]]
        ELSE sc

\* _save_sidecar: the sidecar files after the call
save_sidecar(sc, ini_path, ms) ==
    LET off == {i \in 1..Len(ms) : ~ms[i].enabled}
        row(k) == CHOOSE i \in off : Cardinality({j \in off : j < i}) = k - 1
        disabled == [k \in 1..Cardinality(off) |->
                        [mod_id |-> ms[row(k)].mod_id,
                         workshop_id |-> ms[row(k)].workshop_id,
                         name |-> ms[row(k)].name]]
    IN  IF disabled # <<>>
        THEN [sc EXCEPT ![sidecar_path(ini_path)] =
                 [kind |-> "json", disabled_mods |-> disabled]]
        ELSE [sc EXCEPT ![sidecar_path(ini_path)] = NoSidecar]

\* _load_sidecar: the list of dicts read from the sidecar
load_sidecar(sc, ini_path) ==
    LET file == sc[sidecar_path(ini_path)]
    IN  IF file.kind = "json" THEN file.disabled_mods ELSE <<>>

\* whether reading the sidecar raises an exception that neither
\* _load_sidecar (it catches JSONDecodeError and KeyError only) nor
\* _load_file catches: from read_text, from data.get on a non-object, or
\* from the re-add loop over something that is no list of objects
sidecar_raises(sc, ini_path) ==
    sc[sidecar_path(ini_path)].kind \in {"unreadable", "not_dict", "bad_entries"}

\* faulty variant of the re-add loop: the name of the sidecar entry is dropped
disabled_to_mods_unnamed(disabled) ==
    [k \in 1..Len(disabled) |->
        Mod(disabled[k].mod_id, disabled[k].workshop_id, "", FALSE)]

\* the "Re-add disabled mods" loop of _load_file
disabled_to_mods(disabled) ==
    [k \in 1..Len(disabled) |->
        Mod(disabled[k].mod_id, disabled[k].workshop_id, disabled[k].name, FALSE)]

(***************************************************************************)
(* The scan index: scan results are a list of [mod_id, workshop_id, name]. *)
(***************************************************************************)
\* faulty variant of the map: the first entry of a mod id wins
RECURSIVE mod_to_ws_first(_, _)
mod_to_ws_first(results, mod_id) ==
    IF results = <<>> THEN <<>>
    ELSE IF Head(results).mod_id = mod_id THEN Head(results).workshop_id
    ELSE mod_to_ws_first(Tail(results), mod_id)

\* build_mod_id_to_workshop_map(results).get(mod_id, ""): last entry wins
RECURSIVE mod_to_ws_get(_, _)
mod_to_ws_get(results, mod_id) ==
    IF results = <<>> THEN <<>>
    ELSE IF results[Len(results)].mod_id = mod_id
    THEN results[Len(results)].workshop_id
    ELSE mod_to_ws_get(SubSeq(results, 1, Len(results) - 1), mod_id)

\* faulty variant of the reverse map: knows no mod for any workshop id
ws_to_mods_none(results, workshop_id) == <<>>

\* build_workshop_to_mod_ids_map(results).get(workshop_id, [])
RECURSIVE ws_to_mods_get(_, _)
ws_to_mods_get(results, workshop_id) ==
    IF results = <<>> THEN <<>>
    ELSE (IF Head(results).workshop_id = workshop_id
          THEN <<Head(results).mod_id>> ELSE <<>>)
         \o ws_to_mods_get(Tail(results), workshop_id)

\* faulty variant of the retry: the id is looked up again as it is
keep_backslashes(s) == s

\* mid.replace("\\", "")
RECURSIVE remove_backslashes(_)
remove_backslashes(s) ==
    IF s = <<>> THEN <<>>
    ELSE (IF Head(s) = BS THEN <<>> ELSE <<Head(s)>>) \o remove_backslashes(Tail(s))

\* _load_file with a scan index: one mod per parsed mod id ...
scan_mods_for_ids(results, mod_ids) ==
    [k \in 1..Len(mod_ids) |->
        LET wid == mod_to_ws_get(results, mod_ids[k])
        IN  Mod(mod_ids[k],
                IF wid # <<>> THEN wid
                ELSE mod_to_ws_get(results, remove_backslashes(mod_ids[k])),
                "", TRUE)]

\* ... then the workshop ids that no such mod carries
RECURSIVE scan_mods_for_unused(_, _, _)
scan_mods_for_unused(results, workshop_ids, used_ws) ==
    IF workshop_ids = <<>> THEN <<>>
    ELSE LET wid == Head(workshop_ids)
             known_mods == ws_to_mods_get(results, wid)
         IN  (IF wid # <<>> /\ wid \notin used_ws
              THEN IF known_mods # <<>>
                   THEN [k \in 1..Len(known_mods) |-> Mod(known_mods[k], wid, "", TRUE)]
                   ELSE <<Mod(<<>>, wid, "", TRUE)>>
              ELSE <<>>)
             \o scan_mods_for_unused(results, Tail(workshop_ids), used_ws)

\* faulty variant of the positional pairing: stops at the shorter list
positional_mods_zip(mod_ids, workshop_ids) ==
    LET shortest == IF Len(mod_ids) < Len(workshop_ids)
                    THEN Len(mod_ids) ELSE Len(workshop_ids)
    IN  [i \in 1..shortest |-> Mod(mod_ids[i], workshop_ids[i], "", TRUE)]

\* _load_file without a scan index: positional pairing
positional_mods(mod_ids, workshop_ids) ==
    LET longest == IF Len(mod_ids) > Len(workshop_ids)
                   THEN Len(mod_ids) ELSE Len(workshop_ids)
    IN  [i \in 1..longest |->
            Mod(IF i <= Len(mod_ids) THEN mod_ids[i] ELSE <<>>,
                IF i <= Len(workshop_ids) THEN workshop_ids[i] ELSE <<>>,
                "", TRUE)]

\* the mods _load_file builds from the parsed lists
config_mods(results, mod_ids, workshop_ids) ==
    IF results # <<>>
    THEN LET first == scan_mods_for_ids(results, mod_ids)
             used_ws == {first[k].workshop_id : k \in 1..Len(first)} \ {<<>>}
         IN  first \o scan_mods_for_unused(results, workshop_ids, used_ws)
    ELSE positional_mods(mod_ids, workshop_ids)

\* faulty variant of the warning test: warns whenever the lengths differ
mismatch_warning_any(results, parsed) ==
    results = <<>> /\ Len(parsed.mod_ids) # Len(parsed.workshop_ids)

\* whether _load_file shows the "Mismatched Lists" warning
mismatch_warning(results, parsed) ==
    /\ results = <<>>
    /\ parsed.mod_ids # <<>>
    /\ parsed.workshop_ids # <<>>
    /\ Len(parsed.mod_ids) # Len(parsed.workshop_ids)

\* the list _load_file hands to set_mods
loaded_mods(results, parsed, disabled) ==
    config_mods(results, parsed.mod_ids, parsed.workshop_ids)
    \o disabled_to_mods(disabled)

(***************************************************************************)
(* State.                                                                  *)
(***************************************************************************)
VARIABLES
    disk,          \* the file system: FileNames -> text or NoFile
    sidecar,       \* the sidecar file of each directory
    ini_args,      \* codec specification: the id lists handed to save
    ini_call,      \* codec specification: the last IniService call, its outcome
    mods,          \* ModListModel._mods
    current_file,  \* MainWindow._current_file, "None" when no file is open
    dirty,         \* MainWindow._dirty
    fetches,       \* the name-fetch workers still running, in dispatch order
    last_op,       \* how the handler that ran last ended: "save_ok",
                   \* "save_failed", "load_ok", "load_warned" (a load that
                   \* showed the Mismatched Lists warning), "load_failed",
                   \* "load_raised" (an exception left the handler),
                   \* "names_ok", "names_failed", "worker_raised" (an
                   \* exception left the worker, no handler ran),
                   \* "scanned", "image_shown", "image_failed",
                   \* "image_discarded", "scan_applied",
                   \* "window_closed", or "other" for one that reports
                   \* nothing
    api_key,       \* settings: whether a Steam API key is set
    scan,          \* settings: what scan_workshop_content(workshop_path) returns
    workshop,      \* scanner specification: the folder the scanner is given
    dialog         \* SearchWorkshopDialog: generation counter, image workers
                   \* still running, preview label

vars == <<disk, sidecar, ini_args, ini_call, mods, current_file, dirty,
          fetches, last_op, api_key, scan, workshop, dialog>>
window_vars == <<sidecar, mods, current_file, dirty, fetches, last_op,
                 api_key, scan, workshop, dialog>>


\* a directory with its listing in the order iterdir() yields it, and a
\* path that is no directory
Dir(entries) == [is_dir |-> TRUE, entries |-> entries]
NoDir == [is_dir |-> FALSE, entries |-> <<>>]

\* the folder handed to the scanner: whether its name is the app id, the
\* folder itself, <folder>/108600 and <folder>/content/108600
Workshop(named_app, self, inside, nested) ==
    [named_app |-> named_app, self |-> self, inside |-> inside, nested |-> nested]

\* no workshop folder on disk
NoWorkshop == Workshop(FALSE, NoDir, NoDir, NoDir)

\* SearchWorkshopDialog.__init__: generation 0, no image worker, an empty
\* preview label
NewDialog == [generation |-> 0, workers |-> <<>>, preview |-> <<"text", "">>]

\* MainWindow.__init__ with no last INI file to reopen
WindowInit ==
    /\ workshop = NoWorkshop
    /\ dialog = NewDialog
    /\ sidecar = [d \in Dirs |-> NoSidecar]
    /\ mods = <<>>
    /\ current_file = "None"
    /\ dirty = FALSE
    /\ fetches = <<>>
    /\ last_op = "init"

(***************************************************************************)
(* The codec on its own: IniService.save and IniService.load applied to    *)
(* bounded files and id lists.                                             *)
(***************************************************************************)
CodecPath == "d1/a.ini"

Line_other == <<"A", "=", "1", NL>>
Line_unterminated == <<"B", "=", "2">>
Line_mods == <<"M", "o", "d", "s", "=", "x", NL>>
Line_workshop ==
    <<"W", "o", "r", "k", "s", "h", "o", "p", "I", "t", "e", "m", "s", "=", "9", NL>>
LineChoices == {Line_other, Line_unterminated, Line_mods, Line_workshop}

ModIdChoices == {<<>>, <<"a">>, <<"b">>}
WorkshopIdChoices == {<<>>, <<"1">>, <<"2">>}

SeqsUpTo(S, n) == UNION {[1..k -> S] : k \in 0..n}

NoCall == [op |-> "none", fault |-> NoFault, raised |-> "none", before |-> NoFile,
           result |-> [mod_ids |-> <<>>, workshop_ids |-> <<>>]]

InitCodec ==
    /\ \E lines \in SeqsUpTo(LineChoices, MaxLines) :
           disk = [f \in FileNames |->
                      IF f = CodecPath THEN writelines(lines) ELSE NoFile]
    /\ \E l1 \in SeqsUpTo(ModIdChoices, MaxIds),
          l2 \in SeqsUpTo(WorkshopIdChoices, MaxIds) :
           ini_args = [mod_ids |-> l1, workshop_ids |-> l2]
    /\ ini_call = NoCall
    /\ WindowInit
    /\ api_key = FALSE
    /\ scan = <<>>

\* service.save(path, mod_ids, workshop_ids)
CodecSave(fault) ==
    LET out == IniService_save(disk, CodecPath, ini_args.mod_ids,
                               ini_args.workshop_ids, fault)
    IN  /\ disk' = out.disk
        /\ ini_call' = [op |-> "save", fault |-> fault, raised |-> out.raised,
                        before |-> disk[CodecPath], result |-> NoCall.result]
        /\ UNCHANGED <<ini_args, window_vars>>

\* service.load(path)
CodecLoad ==
    /\ exists(disk, CodecPath)
    /\ ini_call' = [op |-> "load", fault |-> NoFault, raised |-> "none",
                    before |-> disk[CodecPath],
                    result |-> IniService_load(disk[CodecPath])]
    /\ UNCHANGED <<disk, ini_args, window_vars>>

NextCodec ==
    \/ \E fault \in Faults : CodecSave(fault)
    \/ CodecLoad

SpecCodec == InitCodec /\ [][NextCodec]_vars


(***************************************************************************)
(* Claims about the codec, checked under SpecCodec.                        *)
(***************************************************************************)
SavedOk == ini_call.op = "save" /\ ini_call.raised = "none"
InputLines == readlines(ini_call.before)
WrittenLines == readlines(disk[CodecPath])

RECURSIVE other_lines(_)
other_lines(lines) ==
    IF lines = <<>> THEN <<>>
    ELSE (IF is_mods_line(Head(lines)) \/ is_workshop_line(Head(lines))
          THEN <<>> ELSE <<Head(lines)>>)
         \o other_lines(Tail(lines))

count_mods_lines(lines) ==
    Cardinality({i \in 1..Len(lines) : is_mods_line(lines[i])})
count_workshop_lines(lines) ==
    Cardinality({i \in 1..Len(lines) : is_workshop_line(lines[i])})

\* identifiers as the claims mean them: non-empty, free of separators,
\* escape characters and blanks (all of WorkshopIdChoices but the empty id)
PlainWorkshopIds ==
    \A i \in 1..Len(ini_args.workshop_ids) : ini_args.workshop_ids[i] # <<>>

\* C1: loading the file that save(file, L1, L2) wrote returns (L1 without its
\* empty strings, L2), in order and without escape prefix.  Stated here for
\* lists of plain non-empty repository ids, the reading most favourable to
\* the claim.
C1_RoundTrip ==
    (SavedOk /\ PlainWorkshopIds) =>
        IniService_load(disk[CodecPath]) =
            [mod_ids |-> drop_empty(ini_args.mod_ids),
             workshop_ids |-> ini_args.workshop_ids]

C6_Passthrough ==
    SavedOk => other_lines(WrittenLines) = other_lines(InputLines)

\* C7: after save the file holds exactly one Mods= line and exactly one
\* WorkshopItems= line.  Stated here for inputs that hold each directive at
\* most once, where the claim's dropping of duplicates plays no part.
C7_OneLinePerDirective ==
    (/\ SavedOk
     /\ count_mods_lines(InputLines) <= 1
     /\ count_workshop_lines(InputLines) <= 1) =>
        /\ count_mods_lines(WrittenLines) = 1
        /\ count_workshop_lines(WrittenLines) = 1


(***************************************************************************)
(* The main window: its handlers, each as one action.                      *)
(***************************************************************************)
\* longest collection the model lets an add or a load build
MaxMods == 2
\* most name-fetch workers running at one time
MaxFetches == 2

MainPath == "d1/a.ini"
File_mods_a ==
    <<"M", "o", "d", "s", "=", BS, "a", NL>> \o workshop_line(<<<<"1">>>>)
\* the directory holds the INI file already, or holds none yet
InitialFiles == {File_mods_a, NoFile}

ScanEntry(mod_id, workshop_id, name) ==
    [mod_id |-> mod_id, workshop_id |-> workshop_id, name |-> name]
ScanChoices ==
    {<<>>, <<ScanEntry(<<"a">>, <<"1">>, "N"), ScanEntry(<<"b">>, <<"1">>, "N")>>}

\* what the Add Mod dialog and the workshop search hand to add_mod
AddChoices ==
    {Mod(<<"b">>, <<"1">>, "", TRUE), Mod(<<>>, <<"2">>, "T1", TRUE)}
\* the values typed into the Mod ID column
EditChoices == {<<>>, <<"b">>}
TitleChoices == {"T1", "T2"}

SkeletonText == ModsKey \o <<NL>> \o WorkshopKey \o <<NL>>
WindowFaults ==
    {NoFault, [at |-> "write", written |-> 1], [at |-> "replace", written |-> 0],
     [at |-> "skeleton", written |-> 0], [at |-> "skeleton", written |-> 1]}

\* a window on a directory that holds one INI file; no Steam API key is set,
\* so names are never fetched
InitFiles ==
    /\ \E text \in InitialFiles :
           disk = [f \in FileNames |-> IF f = MainPath THEN text ELSE NoFile]
    /\ ini_args = [mod_ids |-> <<>>, workshop_ids |-> <<>>]
    /\ ini_call = NoCall
    /\ WindowInit
    /\ api_key = FALSE
    /\ scan \in ScanChoices

\* the same window with a Steam API key set and no workshop path
InitNames ==
    /\ disk = [f \in FileNames |-> IF f = MainPath THEN File_mods_a ELSE NoFile]
    /\ ini_args = [mod_ids |-> <<>>, workshop_ids |-> <<>>]
    /\ ini_call = NoCall
    /\ WindowInit
    /\ api_key = TRUE
    /\ scan = <<>>

\* the workshop ids _fetch_names_async asks for
fetch_ids(ms) == {ms[i].workshop_id : i \in 1..Len(ms)} \ {<<>>}

\* _fetch_names_async: a worker is started unless there is nothing to ask.
\* A running worker is [ids, overtaken]: the ids it asks for, and whether the
\* result of a worker started after it has been applied already.  The code
\* keeps no such record; it is kept here to tell a late result from a
\* current one.  Starting a worker overwrites self._worker and
\* self._worker_thread while the earlier worker may still run; whether that
\* worker then delivers, reports an error or is never heard of again is left
\* open: each running worker may take either action or none.
fetch_names_async(fs, ms) ==
    IF fetch_ids(ms) = {} THEN fs
    ELSE Append(fs, [ids |-> fetch_ids(ms), overtaken |-> FALSE])

\* Write Path(path).write_text(skeleton) of _save_file: the disk and whether
\* it raised
write_skeleton(d, path, fault) ==
    IF exists(d, path) THEN [disk |-> d, raised |-> "none"]
    ELSE IF fault.at = "skeleton"
    THEN [disk |-> IF fault.written = 0 THEN d ELSE write_text(d, path, <<>>),
          raised |-> "skeleton"]
    ELSE [disk |-> write_text(d, path, SkeletonText), raised |-> "none"]

\* the try-block of _save_file
try_save(d, path, mod_ids, workshop_ids, fault) ==
    LET made == write_skeleton(d, path, fault)
    IN  IF made.raised # "none" THEN made
        ELSE IniService_save(made.disk, path, mod_ids, workshop_ids, fault)

\* _save_file(path), reached from Save and from Save As
SaveFile(path, fault) ==
    LET mod_ids == save_mod_ids(mods)
        workshop_ids == save_workshop_ids(mods)
        out == try_save(disk, path, mod_ids, workshop_ids, fault)
    IN  /\ fault.at = "skeleton" => ~exists(disk, path)
        /\ disk' = out.disk
        /\ IF out.raised = "none"
           THEN /\ sidecar' = save_sidecar(sidecar, path, mods)
                /\ current_file' = path
                /\ dirty' = FALSE
                /\ last_op' = "save_ok"
           ELSE /\ last_op' = "save_failed"
                /\ UNCHANGED <<sidecar, current_file, dirty>>
        /\ UNCHANGED <<ini_args, ini_call, mods, fetches, api_key, scan,
                       workshop, dialog>>

\* faulty variant of the failing load: the window is left as after Close INI
LoadFileFailsAndCloses(path) ==
    /\ last_op' = "load_failed"
    /\ mods' = <<>>
    /\ current_file' = "None"
    /\ dirty' = FALSE
    /\ UNCHANGED <<disk, sidecar, ini_args, ini_call, fetches, api_key, scan,
                   workshop, dialog>>

\* _load_file(path) when IniService.load raises: the error box, nothing else
LoadFileFails(path) ==
    /\ last_op' = "load_failed"
    /\ UNCHANGED <<disk, sidecar, ini_args, ini_call, mods, current_file, dirty,
                   fetches, api_key, scan,
                   workshop, dialog>>

\* _load_file(path) when reading the sidecar raises: the exception leaves
\* _load_file before set_mods, no box is shown
LoadFileRaises(path) ==
    /\ last_op' = "load_raised"
    /\ UNCHANGED <<disk, sidecar, ini_args, ini_call, mods, current_file, dirty,
                   fetches, api_key, scan,
                   workshop, dialog>>

\* _load_file(path) when the file was read
LoadFileReads(path) ==
    LET new_mods == loaded_mods(scan, IniService_load(disk[path]),
                                load_sidecar(sidecar, path))
    IN  /\ Len(new_mods) <= MaxMods
        /\ mods' = set_mods(mods, new_mods)
        /\ current_file' = path
        /\ dirty' = FALSE
        /\ fetches' = IF api_key THEN fetch_names_async(fetches, new_mods)
                      ELSE fetches
        /\ Len(fetches') <= MaxFetches
        /\ last_op' = IF mismatch_warning(scan, IniService_load(disk[path]))
                      THEN "load_warned" ELSE "load_ok"
        /\ UNCHANGED <<disk, sidecar, ini_args, ini_call, api_key, scan,
                       workshop, dialog>>

\* _on_open: Open INI, with the user's answer to "discard unsaved changes?"
OnOpen(path, discard, read_fails) ==
    IF dirty /\ ~discard
    THEN /\ last_op' = "other"
         /\ UNCHANGED <<disk, sidecar, ini_args, ini_call, mods, current_file,
                        dirty, fetches, api_key, scan,
                        workshop, dialog>>
    ELSE IF read_fails \/ ~exists(disk, path) THEN LoadFileFails(path)
    ELSE IF sidecar_raises(sidecar, path) THEN LoadFileRaises(path)
    ELSE LoadFileReads(path)

\* _on_close: Close INI
OnClose(discard) ==
    /\ ~dirty \/ discard
    /\ mods' = set_mods(mods, <<>>)
    /\ current_file' = "None"
    /\ dirty' = FALSE
    /\ last_op' = "other"
    /\ UNCHANGED <<disk, sidecar, ini_args, ini_call, fetches, api_key, scan,
                   workshop, dialog>>

\* _on_add_mod / _on_mod_from_search: add_mod, rowsInserted sets dirty
OnAddMod(mod) ==
    /\ Len(mods) < MaxMods
    /\ mods' = add_mod(mods, mod)
    /\ dirty' = TRUE
    /\ last_op' = "other"
    /\ UNCHANGED <<disk, sidecar, ini_args, ini_call, current_file, fetches,
                   api_key, scan,
                   workshop, dialog>>

\* _on_remove_selected for one row: remove_rows, rowsRemoved sets dirty
OnRemove(row) ==
    /\ row \in 1..Len(mods)
    /\ mods' = remove_row(mods, row)
    /\ dirty' = TRUE
    /\ last_op' = "other"
    /\ UNCHANGED <<disk, sidecar, ini_args, ini_call, current_file, fetches,
                   api_key, scan,
                   workshop, dialog>>

\* setData(CheckStateRole) on the Enabled column: dataChanged sets dirty
OnToggle(row) ==
    /\ row \in 1..Len(mods)
    /\ mods' = [mods EXCEPT ![row].enabled = ~mods[row].enabled]
    /\ dirty' = TRUE
    /\ last_op' = "other"
    /\ UNCHANGED <<disk, sidecar, ini_args, ini_call, current_file, fetches,
                   api_key, scan,
                   workshop, dialog>>

\* setData(EditRole) on the Mod ID column: dataChanged sets dirty
OnEditModId(row, value) ==
    /\ row \in 1..Len(mods)
    /\ mods' = [mods EXCEPT ![row].mod_id = value]
    /\ dirty' = TRUE
    /\ last_op' = "other"
    /\ UNCHANGED <<disk, sidecar, ini_args, ini_call, current_file, fetches,
                   api_key, scan,
                   workshop, dialog>>

\* _on_refresh_names with an API key set
OnRefreshNames ==
    /\ api_key
    /\ fetch_ids(mods) # {}
    /\ Len(fetches) < MaxFetches
    /\ fetches' = fetch_names_async(fetches, mods)
    /\ last_op' = "other"
    /\ UNCHANGED <<disk, sidecar, ini_args, ini_call, mods, current_file, dirty,
                   api_key, scan,
                   workshop, dialog>>

\* the loop of _on_names_fetched over the items of the result; titles maps a
\* publishedfileid to the title returned for it, "" when none came
RECURSIVE apply_titles(_, _, _)
apply_titles(ms, ids, titles) ==
    IF ids = {} THEN ms
    ELSE LET wid == CHOOSE w \in ids : TRUE
         IN  apply_titles(
                 IF wid # <<>> /\ titles[wid] # "" 
                 THEN update_mod_name(ms, wid, titles[wid]) ELSE ms,
                 ids \ {wid}, titles)

\* the dirty flag when _on_names_fetched returns: dataChanged has set it for
\* every renamed row, then self._dirty = was_dirty
dirty_after_names(was_dirty, renamed) == was_dirty

\* the running workers once worker n has delivered its result
worker_delivered(fs, n) ==
    remove_row([k \in 1..Len(fs) |->
                   IF k < n THEN [fs[k] EXCEPT !.overtaken = TRUE] ELSE fs[k]], n)

\* _on_names_fetched: worker n delivers its result
OnNamesFetched(n) ==
    /\ n \in 1..Len(fetches)
    /\ \E titles \in [fetches[n].ids -> TitleChoices \cup {""}] :
           mods' = apply_titles(mods, fetches[n].ids, titles)
    /\ dirty' = dirty_after_names(dirty, mods' # mods)
    /\ fetches' = worker_delivered(fetches, n)
    /\ last_op' = "names_ok"
    /\ UNCHANGED <<disk, sidecar, ini_args, ini_call, current_file, api_key, scan,
                   workshop, dialog>>

\* _on_names_error: worker n reports a SteamApiError
OnNamesError(n) ==
    /\ n \in 1..Len(fetches)
    /\ fetches' = remove_row(fetches, n)
    /\ last_op' = "names_failed"
    /\ UNCHANGED <<disk, sidecar, ini_args, ini_call, mods, current_file, dirty,
                   api_key, scan,
                   workshop, dialog>>

\* how a lookup may fail: no connection, a status that raise_for_status
\* rejects, a body that is no JSON
LookupFailures == {"network", "status", "malformed"}

\* what fetch_mod_details raises: requests.get and raise_for_status are
\* inside the try that raises SteamApiError, resp.json() is behind it
raised_by_fetch(failure) ==
    IF failure \in {"network", "status"} THEN "SteamApiError"
    ELSE "JSONDecodeError"

\* _FetchNamesWorker.run when fetch_mod_details raises something other than
\* SteamApiError: the exception leaves run, neither signal is emitted
WorkerRaises(n) ==
    /\ n \in 1..Len(fetches)
    /\ fetches' = remove_row(fetches, n)
    /\ last_op' = "worker_raised"
    /\ UNCHANGED <<disk, sidecar, ini_args, ini_call, mods, current_file, dirty,
                   api_key, scan,
                   workshop, dialog>>

\* the lookup of worker n fails: _FetchNamesWorker.run catches SteamApiError
\* and emits error, which runs _on_names_error
OnLookupFails(n, failure) ==
    IF raised_by_fetch(failure) = "SteamApiError" THEN OnNamesError(n)
    ELSE WorkerRaises(n)

\* saving, loading and editing
NextFiles ==
    \/ \E fault \in WindowFaults : SaveFile(MainPath, fault)
    \/ \E discard \in BOOLEAN, read_fails \in BOOLEAN :
           OnOpen(MainPath, discard, read_fails)
    \/ \E discard \in BOOLEAN : OnClose(discard)
    \/ \E mod \in AddChoices : OnAddMod(mod)
    \/ \E row \in 1..MaxMods : OnRemove(row)
    \/ \E row \in 1..MaxMods : OnToggle(row)
    \/ \E row \in 1..MaxMods, value \in EditChoices : OnEditModId(row, value)

SpecFiles == InitFiles /\ [][NextFiles]_vars

\* loading, editing and fetching names
NextNames ==
    \/ \E discard \in BOOLEAN, read_fails \in BOOLEAN :
           OnOpen(MainPath, discard, read_fails)
    \/ \E mod \in AddChoices : OnAddMod(mod)
    \/ \E row \in 1..MaxMods : OnRemove(row)
    \/ \E row \in 1..MaxMods : OnToggle(row)
    \/ \E row \in 1..MaxMods, value \in EditChoices : OnEditModId(row, value)
    \/ OnRefreshNames
    \/ \E n \in 1..MaxFetches : OnNamesFetched(n)
    \/ \E n \in 1..MaxFetches, failure \in LookupFailures :
           OnLookupFails(n, failure)

SpecNames == InitNames /\ [][NextNames]_vars


(***************************************************************************)
(* Loading on its own: a window opened on a directory whose INI file holds *)
(* bounded id lists, with or without a scan index and a sidecar.           *)
(***************************************************************************)
\* the content ids and repository ids the INI file may list; one content id
\* holds an escape character inside
LoadModIds == {<<"a">>, <<"b">>, <<"a", BS, "b">>}
LoadWorkshopIds == {<<"1">>, <<"2">>}
LoadFiles ==
    {mods_line(l1) \o workshop_line(l2) :
        l1 \in SeqsUpTo(LoadModIds, MaxIds), l2 \in SeqsUpTo(LoadWorkshopIds, MaxIds)}

\* what scan_workshop_content finds: nothing; an item that provides two
\* mods; two items, one of a mod whose id the INI file writes with an escape
LoadScanChoices ==
    {<<>>,
     <<ScanEntry(<<"a">>, <<"1">>, "N"), ScanEntry(<<"b">>, <<"1">>, "N")>>,
     <<ScanEntry(<<"a">>, <<"1">>, "N"), ScanEntry(<<"a", "b">>, <<"2">>, "N")>>}

\* the sidecar of the directory: none, one inactive entity, or a file that
\* is not what _save_sidecar writes
LoadSidecarChoices ==
    {NoSidecar,
     [kind |-> "json",
      disabled_mods |-> <<[mod_id |-> <<"b">>, workshop_id |-> <<"2">>,
                           name |-> "T1"]>>]}
    \cup {[kind |-> k, disabled_mods |-> <<>>] :
              k \in {"invalid_json", "no_key", "unreadable", "not_dict",
                     "bad_entries"}}

InitLoad ==
    /\ \E text \in LoadFiles :
           disk = [f \in FileNames |-> IF f = MainPath THEN text ELSE NoFile]
    /\ \E file \in LoadSidecarChoices :
           sidecar = [d \in Dirs |->
                         IF d = sidecar_path(MainPath) THEN file ELSE NoSidecar]
    /\ ini_args = [mod_ids |-> <<>>, workshop_ids |-> <<>>]
    /\ ini_call = NoCall
    /\ mods = <<>>
    /\ current_file = "None"
    /\ dirty = FALSE
    /\ fetches = <<>>
    /\ last_op = "init"
    /\ api_key = FALSE
    /\ scan \in LoadScanChoices
    /\ workshop = NoWorkshop
    /\ dialog = NewDialog

\* loading, toggling and closing
NextLoad ==
    \/ \E discard \in BOOLEAN, read_fails \in BOOLEAN :
           OnOpen(MainPath, discard, read_fails)
    \/ \E discard \in BOOLEAN : OnClose(discard)
    \/ \E row \in 1..MaxMods : OnToggle(row)

SpecLoad == InitLoad /\ [][NextLoad]_vars

(***************************************************************************)
(* Claims about loading, checked under SpecLoad.                           *)
(***************************************************************************)
Loaded == last_op \in {"load_ok", "load_warned"}
ParsedModIds == IniService_load(disk[current_file]).mod_ids
ParsedWorkshopIds == IniService_load(disk[current_file]).workshop_ids

\* the id without its backslashes
RECURSIVE without_escapes(_)
without_escapes(id) ==
    IF id = <<>> THEN <<>>
    ELSE IF Head(id) = BS THEN without_escapes(Tail(id))
    ELSE <<Head(id)>> \o without_escapes(Tail(id))

\* the repository id the scan index holds for a content id: that of the last
\* scan result with this content id, the empty string when there is none
index_entry(id) ==
    LET hits == {k \in 1..Len(scan) : scan[k].mod_id = id}
    IN  IF hits = {} THEN <<>>
        ELSE scan[CHOOSE k \in hits : \A j \in hits : j <= k].workshop_id

\* C11: with a scan index, the collection starts with one active entity per
\* parsed content id, in the order of the parsed list, whose repository id
\* is the index entry of the raw id, else that of the id without
\* backslashes, else empty.
C11_ScanPairsContentIds ==
    (Loaded /\ scan # <<>>) =>
        /\ Len(mods) >= Len(ParsedModIds)
        /\ \A k \in 1..Len(ParsedModIds) :
               /\ mods[k].enabled
               /\ mods[k].mod_id = ParsedModIds[k]
               /\ mods[k].workshop_id =
                      IF index_entry(ParsedModIds[k]) # <<>>
                      THEN index_entry(ParsedModIds[k])
                      ELSE index_entry(without_escapes(ParsedModIds[k]))

\* a load with a scan index of a content id the index knows only without
\* its backslash, followed by one the index does not know at all
C11_Witness ==
    /\ Loaded /\ scan # <<>>
    /\ Len(ParsedModIds) = 2
    /\ index_entry(ParsedModIds[1]) = <<>>
    /\ mods[1].workshop_id # <<>>
    /\ mods[2].workshop_id = <<>>
(***************************************************************************)
ends_with(line, text) ==
    /\ Len(line) >= Len(text)
    /\ SubSeq(line, Len(line) - Len(text) + 1, Len(line)) = text

\* the lines of the file that is open
CurrentLines == readlines(disk[current_file])

\* the non-empty content ids of the active entities, in collection order
RECURSIVE active_content_ids(_)
active_content_ids(ms) ==
    IF ms = <<>> THEN <<>>
    ELSE (IF Head(ms).enabled /\ Head(ms).mod_id # <<>>
          THEN <<Head(ms).mod_id>> ELSE <<>>)
         \o active_content_ids(Tail(ms))

\* the non-empty repository ids of the active entities, each at the place of
\* its first occurrence
RECURSIVE active_repository_ids(_, _)
active_repository_ids(ms, seen) ==
    IF ms = <<>> THEN <<>>
    ELSE LET wid == Head(ms).workshop_id
             new == Head(ms).enabled /\ wid # <<>> /\ wid \notin seen
         IN  (IF new THEN <<wid>> ELSE <<>>)
             \o active_repository_ids(Tail(ms), IF new THEN seen \cup {wid} ELSE seen)

\* the directive lines that list these ids
expected_mods_text(ids) ==
    ModsKey \o join([k \in 1..Len(ids) |-> <<BS>> \o ids[k]], SEMI) \o <<NL>>
expected_workshop_text(ids) == WorkshopKey \o join(ids, SEMI) \o <<NL>>

\* C2: after a successful save the content-id list written to the file is
\* exactly the non-empty content ids of the active entities, in collection
\* order: it is written, and no Mods= line of the file lists anything else,
\* so a content id carried only by inactive entities is not in the file.
C2_SavedContentIds ==
    last_op = "save_ok" =>
        LET text == expected_mods_text(active_content_ids(mods))
        IN  /\ \E i \in 1..Len(CurrentLines) : ends_with(CurrentLines[i], text)
            /\ \A i \in 1..Len(CurrentLines) :
                   is_mods_line(CurrentLines[i]) => CurrentLines[i] = text

\* a saved collection of an inactive entity and an active one, both with a
\* content id
C2_Witness ==
    /\ last_op = "save_ok"
    /\ Len(mods) = 2
    /\ \E i, j \in 1..2 :
           /\ ~mods[i].enabled /\ mods[i].mod_id # <<>>
           /\ mods[j].enabled /\ mods[j].mod_id # <<>>
           /\ mods[j].mod_id # mods[i].mod_id

\* the inactive entities of a collection, in order
RECURSIVE inactive_mods(_)
inactive_mods(ms) ==
    IF ms = <<>> THEN <<>>
    ELSE (IF Head(ms).enabled THEN <<>> ELSE <<Head(ms)>>)
         \o inactive_mods(Tail(ms))

\* the collection is active entities followed by exactly the entries of the
\* sidecar, each inactive
sidecar_entries_last(ms, entries) ==
    \E k \in 0..Len(ms) :
        /\ \A i \in 1..k : ms[i].enabled
        /\ Len(ms) = k + Len(entries)
        /\ \A j \in 1..Len(entries) :
               ms[k + j] = [mod_id |-> entries[j].mod_id,
                            workshop_id |-> entries[j].workshop_id,
                            name |-> entries[j].name, enabled |-> FALSE]

\* C3: a load of the file that was just saved yields every entity that was
\* inactive at the save again, with its content id, repository id and
\* display name and inactive; and after every load, with or without a scan
\* index, the entities read from the sidecar come last, inactive, behind the
\* entities built from the file.
C3_SidecarRoundTrip ==
    /\ [][(last_op = "save_ok" /\ last_op' \in {"load_ok", "load_warned"}
             /\ current_file' = current_file)
            => inactive_mods(mods') = inactive_mods(mods)]_vars
    /\ [](last_op \in {"load_ok", "load_warned"} =>
             sidecar_entries_last(
                 mods, sidecar[sidecar_path(current_file)].disabled_mods))

\* a load on a directory with a scan index that brought back a named
\* inactive entity behind an active one
C3_Witness ==
    /\ last_op = "load_ok"
    /\ scan # <<>>
    /\ Len(mods) = 2
    /\ mods[1].enabled
    /\ ~mods[2].enabled /\ mods[2].name # ""
    /\ sidecar[sidecar_path(current_file)].kind = "json"

\* C5: a save that fails leaves the disk, the sidecar, the collection, the
\* current file and the dirty flag as they were; in particular it creates no
\* file at a destination that did not exist.
C5_FailedSaveChangesNothing ==
    [][last_op' = "save_failed" =>
          /\ disk' = disk
          /\ sidecar' = sidecar
          /\ mods' = mods
          /\ current_file' = current_file
          /\ dirty' = dirty]_vars

\* C8: the repository-id list written by a successful save holds each
\* non-empty repository id of the active entities once, at the place of its
\* first occurrence, and the content-id list written with it still lists
\* the content id of each of these entities.
C8_SavedRepositoryIds ==
    last_op = "save_ok" =>
        LET text == expected_workshop_text(active_repository_ids(mods, {}))
        IN  /\ \E i \in 1..Len(CurrentLines) : ends_with(CurrentLines[i], text)
            /\ \A i \in 1..Len(CurrentLines) :
                   is_workshop_line(CurrentLines[i]) => CurrentLines[i] = text
            /\ \E i \in 1..Len(CurrentLines) :
                   ends_with(CurrentLines[i],
                             expected_mods_text(active_content_ids(mods)))

\* a saved collection of two active entities that share a repository id and
\* differ in their content ids
C8_Witness ==
    /\ last_op = "save_ok"
    /\ Len(mods) = 2
    /\ mods[1].enabled /\ mods[2].enabled
    /\ mods[1].workshop_id # <<>>
    /\ mods[1].workshop_id = mods[2].workshop_id
    /\ mods[1].mod_id # <<>> /\ mods[2].mod_id # <<>>
    /\ mods[1].mod_id # mods[2].mod_id

(***************************************************************************)
(* Claims about name enrichment, checked under SpecNames.                  *)
(***************************************************************************)
names_of(ms) == [i \in 1..Len(ms) |-> ms[i].name]

\* C9: the result of a worker that was overtaken (a worker started after it
\* has delivered and been applied) changes no display name when it arrives.
C9_StaleResultDiscarded ==
    [][\A n \in 1..Len(fetches) :
          (/\ last_op' = "names_ok"
           /\ fetches' = worker_delivered(fetches, n)
           /\ fetches[n].overtaken)
          => names_of(mods') = names_of(mods)]_vars

\* C10: the delivery of a result changes nothing but display names, and
\* those only of entities whose repository id the worker asked for; the
\* collection keeps its length and order and the dirty flag its value.
C10_EnrichmentFrame ==
    [][last_op' = "names_ok" =>
          \E n \in 1..Len(fetches) :
              /\ fetches' = worker_delivered(fetches, n)
              /\ Len(mods') = Len(mods)
              /\ \A i \in 1..Len(mods) :
                     /\ mods'[i].mod_id = mods[i].mod_id
                     /\ mods'[i].workshop_id = mods[i].workshop_id
                     /\ mods'[i].enabled = mods[i].enabled
                     /\ mods'[i].name # mods[i].name
                            => mods[i].workshop_id \in fetches[n].ids
              /\ dirty' = dirty]_vars

\* a delivery into an edited collection that named one entity and left
\* alone another, which carries a repository id of its own
C10_Witness ==
    /\ last_op = "names_ok"
    /\ dirty
    /\ Len(mods) = 2
    /\ \E i, j \in 1..2 :
           /\ mods[i].name = "T2"
           /\ mods[j].workshop_id # mods[i].workshop_id
           /\ mods[j].name # "T2"

\* the entries of the sidecar of the open file
SidecarEntries == sidecar[sidecar_path(current_file)].disabled_mods

\* the rows of the collection behind the content-id-derived entities and
\* before the sidecar entities
ExtraRows == (Len(ParsedModIds) + 1)..(Len(mods) - Len(SidecarEntries))

\* the repository ids of the raw list that are non-empty and that no
\* content-id-derived entity carries
UnusedWorkshopIds ==
    {ParsedWorkshopIds[i] : i \in 1..Len(ParsedWorkshopIds)}
    \ ({<<>>} \cup {mods[k].workshop_id : k \in 1..Len(ParsedModIds)})

\* the scan results of a repository id
known_for(w) == {k \in 1..Len(scan) : scan[k].workshop_id = w}

\* C12: with a scan index, behind the content-id-derived entities the load
\* adds, for every entry of the raw repository-id list that is non-empty and
\* carried by none of them, one active entity per content id the reverse
\* map knows for it, or one active entity with empty content id when it
\* knows none; every non-empty repository id of the raw list is then
\* carried by an active entity.
C12_ScanAddsUnusedRepositoryIds ==
    (Loaded /\ scan # <<>>) =>
        /\ \A r \in ExtraRows :
               /\ mods[r].enabled
               /\ mods[r].workshop_id \in UnusedWorkshopIds
               /\ IF known_for(mods[r].workshop_id) = {}
                  THEN mods[r].mod_id = <<>>
                  ELSE \E k \in known_for(mods[r].workshop_id) :
                           scan[k].mod_id = mods[r].mod_id
        /\ \A w \in UnusedWorkshopIds :
               /\ \A k \in known_for(w) :
                      \E r \in ExtraRows :
                          mods[r].mod_id = scan[k].mod_id /\ mods[r].workshop_id = w
               /\ Cardinality({r \in ExtraRows : mods[r].workshop_id = w})
                      = Cardinality({i \in 1..Len(ParsedWorkshopIds) :
                                        ParsedWorkshopIds[i] = w})
                        * (IF known_for(w) = {} THEN 1
                           ELSE Cardinality(known_for(w)))
        /\ \A i \in 1..Len(ParsedWorkshopIds) :
               ParsedWorkshopIds[i] # <<>> =>
                   \E r \in 1..Len(mods) :
                       mods[r].enabled /\ mods[r].workshop_id = ParsedWorkshopIds[i]

\* a load with a scan index of a file that lists no content id and one
\* repository id, for which the reverse map knows two content ids
C12_Witness ==
    /\ Loaded /\ scan # <<>>
    /\ ParsedModIds = <<>>
    /\ Len(ParsedWorkshopIds) = 1
    /\ Len(mods) = 2
    /\ mods[1].enabled /\ mods[2].enabled
    /\ mods[1].mod_id # mods[2].mod_id
    /\ mods[1].workshop_id = mods[2].workshop_id

\* C13: without a scan index the load creates max(len(content ids),
\* len(repository ids)) active entities, the i-th pairing the i-th content
\* id with the i-th repository id, the empty string standing in for the
\* exhausted list; two empty lists create none.
C13_PositionalPairing ==
    (Loaded /\ scan = <<>>) =>
        LET longest == IF Len(ParsedModIds) > Len(ParsedWorkshopIds)
                       THEN Len(ParsedModIds) ELSE Len(ParsedWorkshopIds)
        IN  /\ Len(mods) = longest + Len(SidecarEntries)
            /\ \A i \in 1..longest :
                   /\ mods[i].enabled
                   /\ mods[i].mod_id =
                          IF i <= Len(ParsedModIds) THEN ParsedModIds[i] ELSE <<>>
                   /\ mods[i].workshop_id =
                          IF i <= Len(ParsedWorkshopIds)
                          THEN ParsedWorkshopIds[i] ELSE <<>>

\* a load without a scan index of two content ids and one repository id
C13_Witness ==
    /\ Loaded /\ scan = <<>>
    /\ Len(ParsedModIds) = 2
    /\ Len(ParsedWorkshopIds) = 1
    /\ Len(mods) = 2
    /\ mods[2].workshop_id = <<>>

\* C14: without a scan index the load shows the length-mismatch warning
\* exactly when both parsed lists are non-empty and differ in length; a
\* load that warned has completed all the same: the collection starts with
\* the positional pairing, the file is the current file and the collection
\* counts as unchanged.
C14_MismatchWarning ==
    (Loaded /\ scan = <<>>) =>
        /\ last_op = "load_warned" <=>
               (/\ ParsedModIds # <<>>
                /\ ParsedWorkshopIds # <<>>
                /\ Len(ParsedModIds) # Len(ParsedWorkshopIds))
        /\ last_op = "load_warned" =>
               /\ current_file = MainPath
               /\ ~dirty
               /\ Len(mods) >= Len(ParsedModIds)
               /\ Len(mods) >= Len(ParsedWorkshopIds)
               /\ \A i \in 1..Len(ParsedModIds) :
                      mods[i].mod_id = ParsedModIds[i]
               /\ \A i \in 1..Len(ParsedWorkshopIds) :
                      mods[i].workshop_id = ParsedWorkshopIds[i]
               /\ \E i \in 1..Len(mods) :
                      mods[i].enabled
                      /\ (mods[i].mod_id = <<>> \/ mods[i].workshop_id = <<>>)

\* a load that warned about one content id against two repository ids
C14_Witness ==
    /\ last_op = "load_warned"
    /\ Len(ParsedModIds) = 1
    /\ Len(ParsedWorkshopIds) = 2
    /\ Len(mods) = 2
    /\ current_file = MainPath

(***************************************************************************)
(* Further claims about loading and saving, checked under SpecFiles.       *)
(***************************************************************************)
\* the list a load of path computes from the file and the sidecar
fresh_list(path) ==
    loaded_mods(scan, IniService_load(disk[path]), load_sidecar(sidecar, path))

\* C15: a successful load leaves as the collection the list computed from
\* the file and its sidecar, whatever the collection held before: an entity
\* of the previous collection that this list does not hold is gone.
C15_LoadReplacesCollection ==
    [][last_op' \in {"load_ok", "load_warned"} =>
          /\ mods' = fresh_list(current_file')
          /\ \A i \in 1..Len(mods) :
                 (\A j \in 1..Len(fresh_list(current_file')) :
                      fresh_list(current_file')[j] # mods[i])
                 => \A j \in 1..Len(mods') : mods'[j] # mods[i]]_vars

\* a load into a window that had been edited since an earlier save
C15_Witness ==
    /\ Loaded
    /\ ~dirty
    /\ mods # <<>>
    /\ sidecar[sidecar_path(current_file)].kind = "json"
    /\ \E i \in 1..Len(mods) : mods[i].enabled /\ mods[i].mod_id = <<"b">>

\* C16: when the file cannot be read, the load reports the failure and the
\* collection, the current file and the dirty flag stay as they were.
C16_FailedLoadChangesNothing ==
    [][\A path \in IniPaths, discard \in BOOLEAN, read_fails \in BOOLEAN :
          (/\ ~dirty \/ discard
           /\ read_fails \/ ~exists(disk, path)
           /\ OnOpen(path, discard, read_fails))
          => /\ last_op' = "load_failed"
             /\ mods' = mods
             /\ current_file' = current_file
             /\ dirty' = dirty]_vars

\* a failed load in a window that holds unsaved edits of an open file
C16_Witness ==
    /\ last_op = "load_failed"
    /\ mods # <<>>
    /\ dirty
    /\ current_file = MainPath

\* C17: after a successful save the sidecar exists exactly when the
\* collection holds an inactive entity, and then lists the inactive
\* entities of the collection and nothing else.
C17_SidecarMirrorsInactive ==
    last_op = "save_ok" =>
        LET file == sidecar[sidecar_path(current_file)]
            off == inactive_mods(mods)
        IN  /\ file.kind \in {"missing", "json"}
            /\ file.kind = "json" <=> off # <<>>
            /\ Len(file.disabled_mods) = Len(off)
            /\ \A k \in 1..Len(off) :
                   file.disabled_mods[k] =
                       [mod_id |-> off[k].mod_id,
                        workshop_id |-> off[k].workshop_id, name |-> off[k].name]

\* a save of a collection of an active entity and an inactive one
C17_Witness ==
    /\ last_op = "save_ok"
    /\ Len(mods) = 2
    /\ mods[1].enabled /\ ~mods[2].enabled
    /\ sidecar[sidecar_path(current_file)].kind = "json"
    /\ Len(sidecar[sidecar_path(current_file)].disabled_mods) = 1

(***************************************************************************)
(* Several INI files: a window on two directories, the first with two INI  *)
(* files, the second with one.                                             *)
(***************************************************************************)
File_mods_b ==
    <<"M", "o", "d", "s", "=", BS, "b", NL>> \o workshop_line(<<<<"2">>>>)

InitSidecar ==
    /\ disk = [f \in FileNames |->
                  IF f = MainPath THEN File_mods_a
                  ELSE IF f \in IniPaths THEN File_mods_b ELSE NoFile]
    /\ ini_args = [mod_ids |-> <<>>, workshop_ids |-> <<>>]
    /\ ini_call = NoCall
    /\ WindowInit
    /\ api_key = FALSE
    /\ scan = <<>>

\* _on_save with a file open: _save_file(self._current_file)
OnSave(fault) ==
    /\ current_file \in IniPaths
    /\ SaveFile(current_file, fault)

\* opening, toggling and saving the open file
NextSidecar ==
    \/ OnSave(NoFault)
    \/ \E path \in IniPaths, discard \in BOOLEAN : OnOpen(path, discard, FALSE)
    \/ \E row \in 1..MaxMods : OnToggle(row)

SpecSidecar == InitSidecar /\ [][NextSidecar]_vars

(***************************************************************************)
(* Claims about the sidecar.                                               *)
(***************************************************************************)
\* C18: whenever the sidecar is missing, unreadable or malformed, reading
\* it raises nothing and the load of a readable INI file completes, with
\* no inactive entity.  Checked under SpecLoad.
C18_SidecarNeverRaises ==
    [][\A discard \in BOOLEAN :
          (/\ ~dirty \/ discard
           /\ exists(disk, MainPath)
           /\ sidecar[sidecar_path(MainPath)].kind # "json"
           /\ OnOpen(MainPath, discard, FALSE))
          => /\ last_op' \in {"load_ok", "load_warned"}
             /\ current_file' = MainPath
             /\ \A i \in 1..Len(mods') : mods'[i].enabled]_vars

\* C19: a save to an INI file B leaves what a load of another INI file A
\* restores from the sidecar as it was.  Checked under SpecSidecar.
C19_SidecarKeyedByFile ==
    [][\A A, B \in IniPaths :
          (A # B /\ last_op' = "save_ok" /\ current_file' = B)
          => load_sidecar(sidecar', A) = load_sidecar(sidecar, A)]_vars

(***************************************************************************)
(* Claims about failing lookups, checked under SpecNames.                  *)
(***************************************************************************)
\* C20: every failure of a lookup, whatever its kind, is reported through
\* the error signal as a failed fetch of names, and the collection, the
\* current file and the dirty flag stay as they were.
C20_LookupFailureReported ==
    [][\A n \in 1..Len(fetches), failure \in LookupFailures :
          OnLookupFails(n, failure)
          => /\ last_op' = "names_failed"
             /\ mods' = mods
             /\ current_file' = current_file
             /\ dirty' = dirty]_vars

(***************************************************************************)
(* The parser on its own: IniService.load applied to files that repeat a   *)
(* directive and to directive values with empty segments.                  *)
(***************************************************************************)
\* the longest directive value, in segments
MaxSegs == 3

\* segments of a directive value: empty, an id, an id with its escape prefix
SegmentChoices == {<<>>, <<"a">>, <<BS, "a">>}
ValueChoices ==
    {join(segs, SEMI) : segs \in SeqsUpTo(SegmentChoices, MaxSegs)}

\* files of one directive line with any of the values
OneLineFiles ==
    {key \o value \o <<NL>> : key \in {ModsKey, WorkshopKey}, value \in ValueChoices}

\* lines of files that repeat a directive
Line_mods_a == ModsKey \o <<BS, "a", NL>>
Line_mods_ba == ModsKey \o <<BS, "b", SEMI, BS, "a", NL>>
Line_workshop_1 == WorkshopKey \o <<"1", NL>>
Line_workshop_21 == WorkshopKey \o <<"2", SEMI, "1", NL>>
RepeatLineChoices ==
    {Line_other, Line_mods_a, Line_mods_ba, Line_workshop_1, Line_workshop_21}
RepeatFiles ==
    {writelines(lines) : lines \in SeqsUpTo(RepeatLineChoices, MaxLines + 1)}

InitParse ==
    /\ \E text \in OneLineFiles \cup RepeatFiles :
           disk = [f \in FileNames |-> IF f = CodecPath THEN text ELSE NoFile]
    /\ ini_args = [mod_ids |-> <<>>, workshop_ids |-> <<>>]
    /\ ini_call = NoCall
    /\ WindowInit
    /\ api_key = FALSE
    /\ scan = <<>>

NextParse == CodecLoad

SpecParse == InitParse /\ [][NextParse]_vars

(***************************************************************************)
(* Claims about the parser, checked under SpecParse.                       *)
(***************************************************************************)
LoadedCall == ini_call.op = "load"
ParsedLines == readlines(ini_call.before)

\* the values of the directive line at position i, as IniService.load
\* assigns them
ids_of_line(lines, i) ==
    LET raw == parse_semicolon_list(strip(lines[i], Whitespace))
    IN  IF is_mods_line(lines[i])
        THEN [k \in 1..Len(raw) |-> lstrip(raw[k], {BS})]
        ELSE raw

\* the position of the last line of each directive, 0 when there is none
last_mods_line(lines) ==
    LET at == {i \in 1..Len(lines) : is_mods_line(lines[i])}
    IN  IF at = {} THEN 0 ELSE CHOOSE i \in at : \A k \in at : k <= i
last_workshop_line(lines) ==
    LET at == {i \in 1..Len(lines) : is_workshop_line(lines[i])}
    IN  IF at = {} THEN 0 ELSE CHOOSE i \in at : \A k \in at : k <= i

\* C21: IniService.load returns for each directive the list of the last line
\* of the file that carries it, and the empty list for a directive no line
\* carries; earlier lines of the directive leave no trace.
C21_LastDirectiveWins ==
    LoadedCall =>
        LET m == last_mods_line(ParsedLines)
            w == last_workshop_line(ParsedLines)
        IN  /\ ini_call.result.mod_ids =
                   IF m = 0 THEN <<>> ELSE ids_of_line(ParsedLines, m)
            /\ ini_call.result.workshop_ids =
                   IF w = 0 THEN <<>> ELSE ids_of_line(ParsedLines, w)

\* a load of a file whose two Mods lines differ: the second one is returned
C21_Witness ==
    /\ LoadedCall
    /\ Len(ParsedLines) = 3
    /\ ParsedLines[1] = Line_mods_ba
    /\ ParsedLines[2] = Line_workshop_1
    /\ ParsedLines[3] = Line_mods_a
    /\ ini_call.result = [mod_ids |-> <<<<"a">>>>, workshop_ids |-> <<<<"1">>>>]

\* the segments of the value of a directive line
segments_of(line) == split(partition_value(strip(line, Whitespace), EQ), SEMI)

\* the segments up to the last non-empty one
up_to_last_filled(segs) ==
    LET filled == {i \in 1..Len(segs) : segs[i] # <<>>}
    IN  IF filled = {} THEN <<>>
        ELSE SubSeq(segs, 1, CHOOSE i \in filled : \A k \in filled : k <= i)

\* C22: the list parsed from a directive value is its sequence of segments
\* up to the last non-empty one: empty segments after it are dropped, empty
\* segments before it stay at their positions, and a value that is empty or
\* holds separators only gives the empty list.  (The content ids are compared
\* after the removal of their escape prefix, which load does after parsing.)
C22_TrailingEmptyDropped ==
    LoadedCall =>
        LET m == last_mods_line(ParsedLines)
            w == last_workshop_line(ParsedLines)
            kept_m == up_to_last_filled(segments_of(ParsedLines[m]))
        IN  /\ w # 0 => ini_call.result.workshop_ids =
                            up_to_last_filled(segments_of(ParsedLines[w]))
            /\ m # 0 => ini_call.result.mod_ids =
                            [k \in 1..Len(kept_m) |-> lstrip(kept_m[k], {BS})]

\* a load of "WorkshopItems=;a;": the leading empty segment is kept, the
\* trailing one dropped
C22_Witness ==
    /\ LoadedCall
    /\ ini_call.before = WorkshopKey \o <<SEMI, "a", SEMI, NL>>
    /\ ini_call.result.workshop_ids = << <<>>, <<"a">> >>

(***************************************************************************)
(* workshop_scanner: the scan of a workshop folder for mod.info files.     *)
(***************************************************************************)
IdKey == <<"i", "d", "=">>
NameKey == <<"n", "a", "m", "e", "=">>
Digits == {"0", "1", "2", "3", "4", "5", "6", "7", "8", "9"}

\* the code point of the characters that occur in the names of directories
ord(c) ==
    CASE c = "." -> 46 [] c = "0" -> 48 [] c = "1" -> 49 [] c = "2" -> 50
      [] c = "3" -> 51 [] c = "4" -> 52 [] c = "5" -> 53 [] c = "6" -> 54
      [] c = "7" -> 55 [] c = "8" -> 56 [] c = "9" -> 57 [] OTHER -> 120

\* a < b on Python strings
RECURSIVE str_lt(_, _)
str_lt(a, b) ==
    IF b = <<>> THEN FALSE
    ELSE IF a = <<>> THEN TRUE
    ELSE IF Head(a) = Head(b) THEN str_lt(Tail(a), Tail(b))
    ELSE ord(Head(a)) < ord(Head(b))

\* str.isdigit() on a name
isdigit(name) == name # <<>> /\ \A i \in 1..Len(name) : name[i] \in Digits

\* what _parse_mod_info returns: None, or the pair (mod_id, name)
NoInfo == [found |-> FALSE, mod_id |-> <<>>, name |-> <<>>]

\* the loop of _parse_mod_info over lines i.., acc the values assigned so far
RECURSIVE parse_info_from(_, _, _)
parse_info_from(lines, i, acc) ==
    IF i > Len(lines) THEN acc
    ELSE LET line == strip(lines[i], Whitespace)
             value == strip(partition_value(line, EQ), Whitespace)
         IN  parse_info_from(lines, i + 1,
                 IF startswith(line, IdKey)
                 THEN [acc EXCEPT !.mod_id = value]
                 ELSE IF startswith(line, NameKey)
                 THEN [acc EXCEPT !.name = value]
                 ELSE acc)

\* _parse_mod_info on the text of a mod.info file
parse_mod_info(text) ==
    LET got == parse_info_from(readlines(text), 1, NoInfo)
    IN  IF got.mod_id # <<>> THEN [got EXCEPT !.found = TRUE] ELSE NoInfo

\* the list info_files of _find_best_mod_info before it is sorted: the root
\* mod.info under the version name "", then that of every subdirectory that
\* has one, in the order of the listing
RECURSIVE sub_info_files(_)
sub_info_files(subdirs) ==
    IF subdirs = <<>> THEN <<>>
    ELSE (IF Head(subdirs).is_dir /\ Head(subdirs).info # NoFile
          THEN <<[version |-> Head(subdirs).name, text |-> Head(subdirs).info]>>
          ELSE <<>>)
         \o sub_info_files(Tail(subdirs))
info_files(mod_dir) ==
    (IF mod_dir.root # NoFile
     THEN <<[version |-> <<>>, text |-> mod_dir.root]>> ELSE <<>>)
    \o sub_info_files(mod_dir.subdirs)

\* faulty variant of the sort: the list stays in the order of the listing
keep_listing_order(files) == files

\* info_files.sort(key=lambda x: x[0], reverse=True): descending by version
\* name, equal names in their former order
RECURSIVE insert_desc(_, _)
insert_desc(sorted, x) ==
    IF sorted = <<>> THEN <<x>>
    ELSE IF str_lt(Head(sorted).version, x.version) THEN <<x>> \o sorted
    ELSE <<Head(sorted)>> \o insert_desc(Tail(sorted), x)
RECURSIVE sort_desc(_)
sort_desc(files) ==
    IF files = <<>> THEN <<>>
    ELSE insert_desc(sort_desc(SubSeq(files, 1, Len(files) - 1)),
                     files[Len(files)])

\* the file _find_best_mod_info picks from the sorted list: that of the
\* first entry with a version name, else the last entry
best_file(files) ==
    LET versioned == {i \in 1..Len(files) : files[i].version # <<>>}
    IN  IF versioned = {}
        THEN files[Len(files)].text
        ELSE files[CHOOSE i \in versioned : \A k \in versioned : i <= k].text

\* _find_best_mod_info(mod_dir)
find_best_mod_info(mod_dir) ==
    LET files == sort_desc(info_files(mod_dir))
    IN  IF files = <<>> THEN NoInfo ELSE parse_mod_info(best_file(files))

\* faulty variant of the probing: content/108600 is tried before 108600
resolve_nested_first(ws) ==
    IF ws.named_app /\ ws.self.is_dir THEN ws.self
    ELSE IF ws.nested.is_dir THEN ws.nested
    ELSE IF ws.inside.is_dir THEN ws.inside
    ELSE NoDir

\* _resolve_content_dir(path): NoDir stands for None
resolve_content_dir(ws) ==
    IF ws.named_app /\ ws.self.is_dir THEN ws.self
    ELSE IF ws.inside.is_dir THEN ws.inside
    ELSE IF ws.nested.is_dir THEN ws.nested
    ELSE NoDir

\* the inner loop of scan_workshop_content over the listing of <item>/mods
RECURSIVE scan_mods_dir(_, _)
scan_mods_dir(mod_dirs, workshop_id) ==
    IF mod_dirs = <<>> THEN <<>>
    ELSE LET info == IF Head(mod_dirs).is_dir
                     THEN find_best_mod_info(Head(mod_dirs)) ELSE NoInfo
         IN  (IF info.found
              THEN <<ScanEntry(info.mod_id, workshop_id, info.name)>>
              ELSE <<>>)
             \o scan_mods_dir(Tail(mod_dirs), workshop_id)

\* the outer loop of scan_workshop_content over the listing of the content
\* directory
RECURSIVE scan_items(_)
scan_items(items) ==
    IF items = <<>> THEN <<>>
    ELSE (IF /\ Head(items).is_dir
             /\ isdigit(Head(items).name)
             /\ Head(items).mods.is_dir
          THEN scan_mods_dir(Head(items).mods.entries, Head(items).name)
          ELSE <<>>)
         \o scan_items(Tail(items))

\* scan_workshop_content(workshop_path)
scan_workshop_content(ws) ==
    LET content_dir == resolve_content_dir(ws)
    IN  IF ~content_dir.is_dir THEN <<>> ELSE scan_items(content_dir.entries)

(***************************************************************************)
(* The scanner on its own: scan_workshop_content applied to bounded        *)
(* workshop folders.                                                       *)
(***************************************************************************)
\* the most entries of a content directory and of a mods directory
MaxItems == 2
MaxModDirs == 2

SubDir(name, info) == [is_dir |-> TRUE, name |-> name, info |-> info]
ModDir(root, subdirs) == [is_dir |-> TRUE, root |-> root, subdirs |-> subdirs]
Item(name, mods_dir) == [is_dir |-> TRUE, name |-> name, mods |-> mods_dir]

\* mod.info files: id X under an old and a new name, no id, both keys twice,
\* and two plain ones
Info_old == IdKey \o <<"X", NL>> \o NameKey \o <<"O", NL>>
Info_new == IdKey \o <<"X", NL>> \o NameKey \o <<"N", NL>>
Info_noid == NameKey \o <<"N", NL>>
Info_twice == Info_old \o IdKey \o <<"Y", NL>> \o NameKey \o <<"N", NL>>
Info_a == IdKey \o <<"a", NL>>
Info_b == IdKey \o <<"b", NL>> \o NameKey \o <<"N", NL>>
InfoChoices == {Info_old, Info_new, Info_noid, Info_twice, NoFile}

\* version subdirectories, in every order a listing may have
VersionNames == {<<"4", "2", ".", "1", "3">>, <<"4", "2", ".", "9">>}
VersionListings ==
    {s \in SeqsUpTo({SubDir(n, i) : n \in VersionNames, i \in InfoChoices}, 2) :
        \A j, k \in 1..Len(s) : j # k => s[j].name # s[k].name}

\* a folder with content/108600 inside, this with the given listing
Nested(items) == Workshop(FALSE, Dir(<<>>), NoDir, Dir(items))

\* one item with one mod directory that has version subdirectories
VersionedWorkshops ==
    {Nested(<<Item(<<"1">>, Dir(<<ModDir(r, s)>>))>>) :
        r \in InfoChoices, s \in VersionListings}

\* up to MaxItems items, the name of one not a number, each without a mods
\* directory or with up to MaxModDirs mod directories
PlainModDirs == {ModDir(r, <<>>) : r \in {Info_a, Info_b}}
ModsDirChoices ==
    {NoDir} \cup {Dir(d) : d \in SeqsUpTo(PlainModDirs, MaxModDirs)}
ItemNameListings ==
    {s \in SeqsUpTo({<<"1">>, <<"2">>, <<"x">>}, MaxItems) :
        \A j, k \in 1..Len(s) : j # k => s[j] # s[k]}
\* the items of the given names, in this order, with the given mods
\* directories
ItemWorkshop(names, mods_dirs) ==
    Nested([i \in 1..Len(names) |-> Item(names[i], mods_dirs[i])])

\* the three places the content directory may be at, each missing, empty or
\* with an item of its own; nothing lies inside a folder that is missing
Place(k) == {NoDir, Dir(<<>>), Dir(<<Item(k, Dir(<<ModDir(Info_a, <<>>)>>))>>)}
PlacedWorkshops ==
    {Workshop(n, s, i, c) :
        n \in BOOLEAN, s \in Place(<<"1">>), i \in Place(<<"2">>), c \in Place(<<"3">>)}
\* an item whose first mod directory has a mod.info without id
NoIdWorkshop ==
    Nested(<<Item(<<"1">>, Dir(<<ModDir(Info_noid, <<>>), ModDir(Info_a, <<>>)>>))>>)

WorkshopChoices ==
    VersionedWorkshops \cup {NoIdWorkshop}
    \cup {w \in PlacedWorkshops :
             ~w.self.is_dir => (~w.inside.is_dir /\ ~w.nested.is_dir)}

InitScan ==
    /\ \/ workshop \in WorkshopChoices
       \/ \E names \in ItemNameListings :
              \E mods_dirs \in [1..Len(names) -> ModsDirChoices] :
                  workshop = ItemWorkshop(names, mods_dirs)
    /\ dialog = NewDialog
    /\ disk = [f \in FileNames |-> NoFile]
    /\ sidecar = [d \in Dirs |-> NoSidecar]
    /\ ini_args = [mod_ids |-> <<>>, workshop_ids |-> <<>>]
    /\ ini_call = NoCall
    /\ mods = <<>>
    /\ current_file = "None"
    /\ dirty = FALSE
    /\ fetches = <<>>
    /\ last_op = "init"
    /\ api_key = FALSE
    /\ scan = <<>>

\* results = scan_workshop_content(workshop_path)
ScanContent ==
    /\ scan' = scan_workshop_content(workshop)
    /\ last_op' = "scanned"
    /\ UNCHANGED <<disk, sidecar, ini_args, ini_call, mods, current_file, dirty,
                   fetches, api_key, workshop, dialog>>

NextScan == ScanContent

SpecScan == InitScan /\ [][NextScan]_vars

(***************************************************************************)
(* Claims about the scanner, checked under SpecScan.                       *)
(***************************************************************************)
Scanned == last_op = "scanned"

\* the workshop folder holds one item with one mod directory
OneModDir ==
    /\ workshop \in VersionedWorkshops
    /\ Len(workshop.nested.entries) = 1
TheModDir == workshop.nested.entries[1].mods.entries[1]
TheItemName == workshop.nested.entries[1].name

\* the positions in the listing of the subdirectories that hold a mod.info
WithInfo(mod_dir) ==
    {i \in 1..Len(mod_dir.subdirs) : mod_dir.subdirs[i].info # NoFile}

\* the scan result of a workshop with one mod directory whose mod.info in
\* use is text
entries_of(text) ==
    IF text = NoFile \/ ~parse_mod_info(text).found THEN <<>>
    ELSE <<ScanEntry(parse_mod_info(text).mod_id, TheItemName,
                     parse_mod_info(text).name)>>

RECURSIVE first_values(_, _, _)
first_values(lines, i, acc) ==
    IF i > Len(lines) THEN acc
    ELSE LET line == strip(lines[i], Whitespace)
             value == strip(partition_value(line, EQ), Whitespace)
             seen_id == \E k \in 1..(i - 1) :
                            startswith(strip(lines[k], Whitespace), IdKey)
             seen_name == \E k \in 1..(i - 1) :
                              startswith(strip(lines[k], Whitespace), NameKey)
         IN  first_values(lines, i + 1,
                 IF startswith(line, IdKey) /\ ~seen_id
                 THEN [acc EXCEPT !.mod_id = value]
                 ELSE IF startswith(line, NameKey) /\ ~seen_name
                 THEN [acc EXCEPT !.name = value]
                 ELSE acc)

\* C24: the scan entry of a mod directory carries the value of the first
\* id= line and of the first name= line of its mod.info; a mod.info without
\* id= line gives no entry, and the mod directories after it are scanned
\* all the same.
C24_FirstIdAndNameWin ==
    /\ (Scanned /\ OneModDir /\ TheModDir.subdirs = <<>>
                /\ TheModDir.root # NoFile) =>
           LET first == first_values(readlines(TheModDir.root), 1, NoInfo)
           IN  scan = IF first.mod_id = <<>> THEN <<>>
                      ELSE <<ScanEntry(first.mod_id, TheItemName, first.name)>>
    /\ (Scanned /\ workshop = NoIdWorkshop) =>
           scan = <<ScanEntry(<<"a">>, <<"1">>, <<>>)>>

\* the content ids and repository ids that occur in the scan result, and
\* one of each that does not
ScanModIds == {scan[i].mod_id : i \in 1..Len(scan)} \cup {<<"z">>}
ScanWorkshopIds == {scan[i].workshop_id : i \in 1..Len(scan)} \cup {<<"9">>}

\* C25: build_mod_id_to_workshop_map gives a content id the repository id of
\* the last scan entry that carries it; build_workshop_to_mod_ids_map gives a
\* repository id the content ids of all its scan entries, in scan order and
\* with repetitions; an id without entry is in neither map.
C25_DerivedMaps ==
    Scanned =>
        /\ \A id \in ScanModIds :
               LET at == {i \in 1..Len(scan) : scan[i].mod_id = id}
               IN  mod_to_ws_get(scan, id) =
                       IF at = {} THEN <<>>
                       ELSE scan[CHOOSE i \in at : \A k \in at : k <= i].workshop_id
        /\ \A w \in ScanWorkshopIds :
               LET at == {i \in 1..Len(scan) : scan[i].workshop_id = w}
                   ids == ws_to_mods_get(scan, w)
               IN  /\ Len(ids) = Cardinality(at)
                   /\ \A i \in at :
                          ids[Cardinality({k \in at : k <= i})] = scan[i].mod_id

\* a scan that found content id a under item 1 and under item 2, and twice
\* under item 2
C25_Witness ==
    /\ Scanned
    /\ Len(scan) = 3
    /\ scan[1] = ScanEntry(<<"a">>, <<"1">>, <<>>)
    /\ scan[2] = ScanEntry(<<"a">>, <<"2">>, <<>>)
    /\ scan[3] = ScanEntry(<<"a">>, <<"2">>, <<>>)
    /\ mod_to_ws_get(scan, <<"a">>) = <<"2">>
    /\ ws_to_mods_get(scan, <<"2">>) = << <<"a">>, <<"a">> >>

\* the given folder is the app-content directory itself
IsAppDir == workshop.named_app /\ workshop.self.is_dir

\* C26: the scan reads the given folder when that is the app-content
\* directory itself, else <folder>/108600 when that is a directory, else
\* <folder>/content/108600 when that is one; when none is, it returns the
\* empty list.
C26_RootResolution ==
    Scanned =>
        /\ IsAppDir => scan = scan_items(workshop.self.entries)
        /\ (~IsAppDir /\ workshop.inside.is_dir) =>
               scan = scan_items(workshop.inside.entries)
        /\ (~IsAppDir /\ ~workshop.inside.is_dir /\ workshop.nested.is_dir) =>
               scan = scan_items(workshop.nested.entries)
        /\ (~IsAppDir /\ ~workshop.inside.is_dir /\ ~workshop.nested.is_dir) =>
               scan = <<>>

\* a scan of a folder not named 108600 that holds an item itself, one in
\* 108600 and one in content/108600: the item of 108600 is found
C26_Witness ==
    /\ Scanned
    /\ ~workshop.named_app
    /\ workshop.self.entries # <<>>
    /\ workshop.inside.entries # <<>>
    /\ workshop.nested.entries # <<>>
    /\ scan = <<ScanEntry(<<"a">>, <<"2">>, <<>>)>>

(***************************************************************************)
(* SearchWorkshopDialog: the preview image of the selected result.         *)
(***************************************************************************)
\* the most image fetches dispatched
MaxImageFetches == 3

\* the selected result: none, one without preview_url, one with a url
NoSelection == "none"
NoUrl == ""
PreviewUrls == {"u1", "u2"}

\* what the preview label shows once the image of url is set
pixmap_of(url) == <<"pixmap", url>>
LabelText(text) == <<"text", text>>

\* faulty variant of the test below: every delivery is applied
generation_any(generation, current) == TRUE

\* the test of _on_image_fetched and _on_image_error: the delivery is of
\* the current generation
generation_current(generation, current) == generation = current

\* _fetch_image_async(url): the counter goes up, the new worker carries the
\* new generation, the workers before it stay
fetch_image_async(d, url) ==
    [d EXCEPT !.generation = @ + 1,
              !.workers = Append(@, [generation |-> d.generation + 1, url |-> url])]

DialogFrame ==
    UNCHANGED <<disk, sidecar, ini_args, ini_call, mods, current_file, dirty,
                fetches, api_key, scan, workshop>>

\* _on_result_selected(current, previous)
OnResultSelected(selected) ==
    /\ dialog' =
           IF selected = NoSelection THEN [dialog EXCEPT !.preview = LabelText("")]
           ELSE IF selected = NoUrl
           THEN [dialog EXCEPT !.preview = LabelText("No preview")]
           ELSE [fetch_image_async(dialog, selected)
                    EXCEPT !.preview = LabelText("Loading...")]
    /\ dialog'.generation <= MaxImageFetches
    /\ last_op' = "other"
    /\ DialogFrame

\* worker n emits finished(data): _on_image_fetched(data, generation);
\* decodes says whether QPixmap.loadFromData accepts the data
OnImageFetched(n, decodes) ==
    /\ n \in 1..Len(dialog.workers)
    /\ LET w == dialog.workers[n]
           applies == generation_current(w.generation, dialog.generation)
       IN  /\ dialog' = [dialog EXCEPT
                  !.workers = remove_row(@, n),
                  !.preview = IF ~applies THEN @
                              ELSE IF decodes THEN pixmap_of(w.url)
                              ELSE LabelText("No preview")]
           /\ last_op' = IF ~applies THEN "image_discarded"
                         ELSE IF decodes THEN "image_shown" ELSE "image_failed"
    /\ DialogFrame

\* worker n emits error: _on_image_error(generation)
OnImageError(n) ==
    /\ n \in 1..Len(dialog.workers)
    /\ LET w == dialog.workers[n]
           applies == generation_current(w.generation, dialog.generation)
       IN  /\ dialog' = [dialog EXCEPT
                  !.workers = remove_row(@, n),
                  !.preview = IF applies THEN LabelText("No preview") ELSE @]
           /\ last_op' = IF applies THEN "image_failed" ELSE "image_discarded"
    /\ DialogFrame

InitDialog ==
    /\ dialog = NewDialog
    /\ workshop = NoWorkshop
    /\ disk = [f \in FileNames |-> NoFile]
    /\ sidecar = [d \in Dirs |-> NoSidecar]
    /\ ini_args = [mod_ids |-> <<>>, workshop_ids |-> <<>>]
    /\ ini_call = NoCall
    /\ mods = <<>>
    /\ current_file = "None"
    /\ dirty = FALSE
    /\ fetches = <<>>
    /\ last_op = "init"
    /\ api_key = FALSE
    /\ scan = <<>>

NextDialog ==
    \/ \E selected \in {NoSelection, NoUrl} \cup PreviewUrls :
           OnResultSelected(selected)
    \/ \E n \in 1..MaxImageFetches, decodes \in BOOLEAN : OnImageFetched(n, decodes)
    \/ \E n \in 1..MaxImageFetches : OnImageError(n)

SpecDialog == InitDialog /\ [][NextDialog]_vars

(***************************************************************************)
(* Claims about the preview image, checked under SpecDialog.               *)
(***************************************************************************)
\* C27: a fetch that is dispatched gets the generation one above all
\* earlier ones and removes no worker that is still running; the delivery of
\* a worker, image or error, changes the preview only when its generation is
\* the current one, so no delivery of a worker changes the preview once a
\* later fetch has been dispatched, in whatever order the workers finish.
C27_StaleImageDiscarded ==
    [][/\ Len(dialog'.workers) > Len(dialog.workers) =>
              /\ dialog'.generation = dialog.generation + 1
              /\ \A k \in 1..Len(dialog.workers) :
                     dialog.workers[k].generation < dialog'.generation
              /\ SubSeq(dialog'.workers, 1, Len(dialog.workers)) = dialog.workers
              /\ dialog'.workers[Len(dialog'.workers)].generation =
                     dialog'.generation
       /\ Len(dialog'.workers) <= Len(dialog.workers) =>
              dialog'.generation = dialog.generation
       /\ \A n \in 1..Len(dialog.workers) :
              (/\ dialog'.workers = remove_row(dialog.workers, n)
               /\ dialog.workers[n].generation # dialog.generation)
              => dialog'.preview = dialog.preview
       /\ \A n \in 1..Len(dialog.workers) :
              (/\ dialog'.workers = remove_row(dialog.workers, n)
               /\ dialog.workers[n].generation = dialog.generation)
              => dialog'.preview \in {pixmap_of(dialog.workers[n].url),
                                      LabelText("No preview")}]_vars

\* the worker of the first fetch delivered after that of the second had
\* set its image: the delivery was discarded, the preview is the second image
C27_Witness ==
    /\ last_op = "image_discarded"
    /\ dialog.generation = 2
    /\ dialog.workers = <<>>
    /\ dialog.preview = pixmap_of("u2")

(***************************************************************************)
(* The main window with a workshop path set: Scan Workshop, closing the    *)
(* window, and the handlers that edit, save and load.                      *)
(***************************************************************************)
\* next(r for r in results if r.mod_id == mod.mod_id)
first_entry(results, mod_id) ==
    LET at == {i \in 1..Len(results) : results[i].mod_id = mod_id}
    IN  results[CHOOSE i \in at : \A k \in at : i <= k]

\* faulty variant of the update below: the workshop id is left alone
scan_update_none(results, mod) == mod

\* the body of the loop of _on_scan_workshop for one mod
scan_update(results, mod) ==
    IF mod.mod_id # <<>> /\ \E i \in 1..Len(results) : results[i].mod_id = mod.mod_id
    THEN LET info == first_entry(results, mod.mod_id)
         IN  IF mod.workshop_id # info.workshop_id \/ mod.name = ""
             THEN [mod EXCEPT !.workshop_id = info.workshop_id,
                              !.name = IF info.name # "" THEN info.name ELSE @]
             ELSE mod
    ELSE mod

\* _on_scan_workshop: Scan Workshop; an empty scan result ends in a message
OnScanWorkshop ==
    IF scan = <<>>
    THEN /\ last_op' = "other"
         /\ UNCHANGED <<disk, sidecar, ini_args, ini_call, mods, current_file,
                        dirty, fetches, api_key, scan, workshop, dialog>>
    ELSE /\ mods' = set_mods(mods, [i \in 1..Len(mods) |-> scan_update(scan, mods[i])])
         /\ dirty' = TRUE
         /\ last_op' = "scan_applied"
         /\ UNCHANGED <<disk, sidecar, ini_args, ini_call, current_file, fetches,
                        api_key, scan, workshop, dialog>>

\* faulty variant of the test below: nobody is asked
check_unsaved_never(is_dirty, discard) == TRUE

\* _check_unsaved(): whether to go on, discard being the user's answer
check_unsaved(is_dirty, discard) == ~is_dirty \/ discard

\* closeEvent: the window closes, or the event is ignored
OnCloseEvent(discard) ==
    /\ last_op' = IF check_unsaved(dirty, discard) THEN "window_closed" ELSE "other"
    /\ UNCHANGED <<disk, sidecar, ini_args, ini_call, mods, current_file, dirty,
                   fetches, api_key, scan, workshop, dialog>>

\* the window is still there
WindowOpen == last_op # "window_closed"

\* item 1 and item 2 both provide content id a
ScanTwoItems ==
    <<ScanEntry(<<"a">>, <<"1">>, "N"), ScanEntry(<<"a">>, <<"2">>, "N")>>

InitWindow ==
    /\ disk = [f \in FileNames |-> IF f = MainPath THEN File_mods_a ELSE NoFile]
    /\ ini_args = [mod_ids |-> <<>>, workshop_ids |-> <<>>]
    /\ ini_call = NoCall
    /\ WindowInit
    /\ api_key = FALSE
    /\ scan = ScanTwoItems

NextWindow ==
    \/ \E fault \in {NoFault, [at |-> "write", written |-> 1]} :
           WindowOpen /\ OnSave(fault)
    \/ \E discard \in BOOLEAN, read_fails \in BOOLEAN :
           WindowOpen /\ OnOpen(MainPath, discard, read_fails)
    \/ \E discard \in BOOLEAN : WindowOpen /\ OnClose(discard)
    \/ \E discard \in BOOLEAN : WindowOpen /\ OnCloseEvent(discard)
    \/ WindowOpen /\ OnAddMod(Mod(<<"b">>, <<"1">>, "", TRUE))
    \/ \E row \in 1..MaxMods : WindowOpen /\ OnRemove(row)
    \/ \E row \in 1..MaxMods : WindowOpen /\ OnToggle(row)
    \/ \E row \in 1..MaxMods : WindowOpen /\ OnEditModId(row, <<>>)
    \/ WindowOpen /\ OnScanWorkshop

SpecWindow == InitWindow /\ [][NextWindow]_vars

(***************************************************************************)
(* Claims about the window, checked under SpecWindow.                      *)
(***************************************************************************)
\* C30: Scan Workshop gives every entity whose content id the scan knows
\* the repository id that build_mod_id_to_workshop_map has for it, the one a
\* load with the same scan result gives it; content ids, active flags and
\* the number of entities stay as they were.
C30_ScanAgreesWithLoad ==
    [][last_op' = "scan_applied" =>
          /\ Len(mods') = Len(mods)
          /\ \A i \in 1..Len(mods) :
                 /\ mods'[i].mod_id = mods[i].mod_id
                 /\ mods'[i].enabled = mods[i].enabled
                 /\ mod_to_ws_get(scan, mods[i].mod_id) # <<>> =>
                        mods'[i].workshop_id = mod_to_ws_get(scan, mods[i].mod_id)]_vars

\* the content ids that ms holds inactive and nowhere active
held_inactive(ms) ==
    {ms[j].mod_id : j \in {k \in 1..Len(ms) : ~ms[k].enabled /\ ms[k].mod_id # <<>>}}
    \ {ms[j].mod_id : j \in {k \in 1..Len(ms) : ms[k].enabled}}

\* C28: when the collection has just been saved and the same file is loaded
\* again, no content id that the collection held inactive (and nowhere
\* active) comes back on an active entity.
C28_InactiveNotReenabled ==
    [][(/\ last_op = "save_ok"
        /\ last_op' \in {"load_ok", "load_warned"}
        /\ current_file' = current_file) =>
          \A i \in 1..Len(mods') :
              mods'[i].enabled => mods'[i].mod_id \notin held_inactive(mods)]_vars

\* an edit: the collection differs in its length, a content id or an
\* active flag
edited(before, after) ==
    \/ Len(after) # Len(before)
    \/ \E i \in 1..Len(before) :
           \/ after[i].mod_id # before[i].mod_id
           \/ after[i].enabled # before[i].enabled

\* the step is a load that succeeded, or Close INI
is_load_or_close ==
    \/ last_op' \in {"load_ok", "load_warned"}
    \/ current_file' = "None" /\ mods' = <<>> /\ ~dirty' /\ last_op' = "other"

\* C29: a step that edits the collection sets the dirty flag unless it is a
\* load or Close INI; the flag is cleared only by a successful load, a
\* successful save or Close INI; and while it is set, Open, Close INI and
\* closing the window go through only after the user chose Discard, the
\* collection, the current file and the flag staying as they are otherwise.
C29_UnsavedNeverLost ==
    [][/\ (edited(mods, mods') /\ ~is_load_or_close) => dirty'
       /\ (dirty /\ ~dirty') => (last_op' = "save_ok" \/ is_load_or_close)
       /\ dirty =>
              /\ \A read_fails \in BOOLEAN :
                     OnOpen(MainPath, FALSE, read_fails) =>
                         /\ mods' = mods
                         /\ current_file' = current_file
                         /\ dirty'
              /\ OnCloseEvent(FALSE) => last_op' # "window_closed"
              /\ ~OnClose(FALSE)
              /\ (is_load_or_close \/ last_op' \in {"load_failed", "load_raised"})
                     => \E read_fails \in BOOLEAN :
                            OnOpen(MainPath, TRUE, read_fails) \/ OnClose(TRUE)
              /\ last_op' = "window_closed" => OnCloseEvent(TRUE)]_vars

\* the window was closed with unsaved edits, after Discard
C29_Witness ==
    /\ last_op = "window_closed"
    /\ dirty
    /\ Len(mods) = 2
    /\ ~mods[1].enabled
    /\ mods[2].mod_id = <<"b">>

=============================================================================
